---- MODULE Spec2Model ----
(***************************************************************************)
(* A model of ubi_reader's extraction driver (ubireader/ubifs/output.py)   *)
(* and of the list-files front end (scripts/ubireader_list_files.py).      *)
(*                                                                         *)
(* Paths and names are strings, modelled as sequences of one-character     *)
(* strings, so that os.path.join, os.path.realpath and str.startswith are  *)
(* computed as the library computes them.  The host file system is a       *)
(* function from absolute paths to nodes.                                  *)
(***************************************************************************)
EXTENDS Integers, Sequences, FiniteSets, TLC

(* ------------------------------------------------------------------ *)
(* Bounds of the model                                                 *)
(* ------------------------------------------------------------------ *)

\* Longest entry list of the root directory (inode 1).
MaxRootDents == 2

\* Longest entry list of the sub-directory inode (inode 2).
MaxSubDents == 1

\* Stand-in for the interpreter's recursion limit: the number of nested
\* extract_dents calls after which the next call raises RecursionError.
RecursionLimit == 3

\* Symbolic links followed by one realpath call before it gives up.
MaxSymlinks == 2

\* Largest byte offset of the image file considered by main().
MaxOffset == 2

\* Most volumes of a UBI image considered by main().
MaxVolumes == 2

(* ------------------------------------------------------------------ *)
(* Strings and paths                                                   *)
(* ------------------------------------------------------------------ *)

\* str.startswith
StartsWith(s, p) == Len(p) <= Len(s) /\ SubSeq(s, 1, Len(p)) = p

IsAbs(s) == Len(s) > 0 /\ s[1] = "/"

\* os.path.join(a, b)
JoinPath(a, b) ==
    IF IsAbs(b) THEN b
    ELSE IF a = <<>> \/ a[Len(a)] = "/" THEN a \o b
    ELSE a \o <<"/">> \o b

RECURSIVE SplitFrom(_, _, _)
SplitFrom(s, i, cur) ==
    IF i > Len(s)
    THEN (IF cur = <<>> THEN <<>> ELSE <<cur>>)
    ELSE IF s[i] = "/"
         THEN (IF cur = <<>> THEN <<>> ELSE <<cur>>) \o SplitFrom(s, i + 1, <<>>)
         ELSE SplitFrom(s, i + 1, Append(cur, s[i]))

\* The components of a path: the non-empty pieces between separators.
SplitPath(s) == SplitFrom(s, 1, <<>>)

RECURSIVE JoinComps(_)
JoinComps(cs) ==
    IF cs = <<>> THEN <<>>
    ELSE <<"/">> \o Head(cs) \o JoinComps(Tail(cs))

\* The absolute path string of a list of components.
PathOf(cs) == IF cs = <<>> THEN <<"/">> ELSE JoinComps(cs)

\* The directory holding a path.
Parent(p) ==
    LET cs == SplitPath(p)
    IN  IF cs = <<>> THEN <<"/">> ELSE PathOf(SubSeq(cs, 1, Len(cs) - 1))

RECURSIVE Resolve(_, _, _, _)
Resolve(fsx, done, rest, fuel) ==
    IF rest = <<>> THEN done
    ELSE LET c == Head(rest)
             r == Tail(rest)
         IN  IF c = <<".">> THEN Resolve(fsx, done, r, fuel)
             ELSE IF c = <<".", ".">>
             THEN Resolve(fsx,
                          IF done = <<>> THEN <<>>
                          ELSE SubSeq(done, 1, Len(done) - 1),
                          r, fuel)
             ELSE LET p == PathOf(Append(done, c))
                  IN  IF p \in DOMAIN fsx /\ fsx[p].kind = "lnk" /\ fuel > 0
                      THEN Resolve(fsx,
                                   IF IsAbs(fsx[p].target) THEN <<>> ELSE done,
                                   SplitPath(fsx[p].target) \o r,
                                   fuel - 1)
                      ELSE Resolve(fsx, Append(done, c), r, fuel)

\* os.path.realpath of an absolute path on the host fsx: "." and ".." are
\* removed and symbolic links are followed.
Realpath(fsx, s) == PathOf(Resolve(fsx, <<>>, SplitPath(s), MaxSymlinks))

\* is_safe_path(basedir, path)
is_safe_path(fsx, basedir, path) ==
    LET b == Realpath(fsx, basedir)
        p == Realpath(fsx, JoinPath(b, path))
    IN  StartsWith(p, b)

\* Containment of paths by components: p is dir itself or lies below it.
Inside(dir, p) ==
    LET d == SplitPath(dir)
        c == SplitPath(p)
    IN  Len(d) <= Len(c) /\ SubSeq(c, 1, Len(d)) = d

(* ------------------------------------------------------------------ *)
(* State                                                               *)
(* ------------------------------------------------------------------ *)

VARIABLES
    image,      \* the UBIFS image being decoded (what walk.index reads)
    settings,   \* ubireader.settings and the perms argument
    fs,         \* the host file system: absolute path -> node
    inodes,     \* extract_files' inode map
    stack,      \* the active entry loops: extract_files' and one per directory
    pc,         \* "start", "run" or "done"
    outcome,    \* how extract_files ended
    log,        \* host actions and reported messages of this run, in order
    run,        \* 1 for the first decode of the image, 2 for the second
    log1,       \* the log of the first decode
    hist,       \* history: the entries that reached a branch of extract_dents
    m           \* the state of ubireader_list_files' main()

vars == <<image, settings, fs, inodes, stack, pc, outcome, log, run, log1, hist, m>>

xvars == <<image, settings, fs, inodes, stack, pc, outcome, log, run, log1, hist>>

(* ------------------------------------------------------------------ *)
(* Names, entries and images                                           *)
(* ------------------------------------------------------------------ *)

\* The output directory given to extract_files, and a sibling of it whose
\* name begins with the output directory's name.
OutPath == <<"/", "o">>

NoPath == <<>>

Dent(i, t, n) == [inum |-> i, type |-> t, name |-> n]

\* Entries of the root directory: a directory, two names of one regular
\* file, a symbolic link and a device of well-formed images; and, of damaged
\* or hostile images, a missing inode, names that leave the directory, and a
\* name that a symbolic link of the image redirects.
RootDents ==
    { Dent(2, "DIR", <<"a">>),
      Dent(3, "REG", <<"a">>),
      Dent(3, "REG", <<"b">>),
      Dent(4, "LNK", <<"s">>),
      Dent(4, "CHR", <<"c">>),
      Dent(5, "REG", <<"a">>),
      Dent(2, "DIR", <<".", ".", "/", "o", "2">>),
      Dent(3, "REG", <<".", ".", "/", "x">>),
      Dent(3, "REG", <<"s">>) }

\* Entries of the sub-directory (inode 2); DIR "a" -> inode 2 makes it its
\* own child, and CHR -> inode 3 names an inode without a device number.
SubDents ==
    { Dent(3, "REG", <<"b">>),
      Dent(2, "DIR", <<"a">>),
      Dent(4, "BLK", <<"c">>),
      Dent(3, "CHR", <<"c">>),
      Dent(3, "REG", <<"/", "x">>),
      Dent(4, "FIFO", <<"f">>),
      Dent(4, "SOCK", <<"k">>) }

SeqsUpTo(S, n) == UNION { [1..k -> S] : k \in 0..n }

HasEntry(ds, types) == \E k \in 1..Len(ds) : ds[k].type \in types

IsDirEntry == {"DIR"}

IsDevEntry == {"BLK", "CHR"}

IsSockEntry == {"SOCK"}

\* The images decoded.  The entry list and the times of inode 2 vary only in
\* images whose root directory reaches inode 2.
Images ==
    { img \in [ keys : {{1, 2, 3, 4}},
                root : SeqsUpTo(RootDents, MaxRootDents) \ {<<>>},
                sub : SeqsUpTo(SubDents, MaxSubDents),
                nlink3 : {1, 2},
                badtime2 : BOOLEAN,
                bad_blocks : {<<>>} ] :
        HasEntry(img.root, IsDirEntry) \/ (img.sub = <<>> /\ ~img.badtime2) }
    \cup
    [ keys : {{1}},
      root : {<<>>},
      sub : {<<>>},
      nlink3 : {1},
      badtime2 : {FALSE},
      bad_blocks : {<<>>, <<7>>} ]
    \cup
    [ keys : {{1, 2, 3, 4}},
      root : {<<Dent(3, "REG", <<"a">>)>>},
      sub : {<<>>},
      nlink3 : {1},
      badtime2 : {FALSE},
      bad_blocks : {<<7>>} ]

Settings ==
    [ use_dummy_devices : BOOLEAN,
      use_dummy_socket_file : BOOLEAN,
      perms : BOOLEAN,
      tolerant : BOOLEAN ]

Node(k, t, c) == [kind |-> k, target |-> t, content |-> c]

DirNode == Node("dir", NoPath, 0)

\* The host before a decode: the output directory exists and is empty.
HostFs == (<<"/">> :> DirNode) @@ (OutPath :> DirNode)

\* One inode of the map: the INODE node's fields that extraction reads, the
\* entry list, and the 'hlink' marker (NoPath when the key is absent).
Inode(nl, w, t, bt, ds) ==
    [nlink |-> nl, words |-> w, target |-> t, badtime |-> bt, dent |-> ds,
     hlink |-> NoPath]

\* walk.index: the inode map of an image.
WalkIndex(img) ==
    [ i \in img.keys |->
        CASE i = 1 -> Inode(2, <<>>, NoPath, FALSE, img.root)
          [] i = 2 -> Inode(2, <<>>, NoPath, img.badtime2, img.sub)
          [] i = 3 -> Inode(img.nlink3, <<>>, NoPath, FALSE, <<>>)
          [] OTHER -> Inode(1, <<5, 0>>, <<"/", "x">>, FALSE, <<>>) ]

\* The mode field of an inode, kept symbolic.
ModeOf(i) == 8 + i

\* process_reg_file: the reassembled body of a regular file, kept symbolic.
process_reg_file(i) == i

\* The bytes struct.pack would give for a device number, kept symbolic.
PackedDev(dev) == 100 + dev

(* ------------------------------------------------------------------ *)
(* Host operations                                                     *)
(* A host state h carries the file system, the log and the control     *)
(* state: "ok", "exc" (an Exception is propagating) or "exit" (the     *)
(* process is terminating).                                            *)
(* ------------------------------------------------------------------ *)

Ev(op, path, src, n, md, msg) ==
    [op |-> op, path |-> path, src |-> src, n |-> n, mode |-> md, msg |-> msg]

Raise(h, e) == [h EXCEPT !.ctl = "exc", !.exc = e]

Did(h, fsx, e) == [h EXCEPT !.fs = fsx, !.ev = Append(@, e)]

IsDir(fsx, p) == p \in DOMAIN fsx /\ fsx[p].kind = "dir"

\* os.path.exists (a symbolic link left unresolved is dangling or a loop)
Exists(fsx, p) == p \in DOMAIN fsx /\ fsx[p].kind # "lnk"

CanCreate(fsx, p) == IsDir(fsx, Parent(p)) /\ p \notin DOMAIN fsx

Put(fsx, p, node) == (p :> node) @@ fsx

\* The reporting function of ubireader.debug: the message is reported; when
\* no tolerant mode is configured the decode ends there.
error(h, level, msg, n) ==
    [h EXCEPT !.ev = Append(@, Ev(level, NoPath, NoPath, n, 0, msg)),
              !.ctl = IF settings.tolerant THEN "ok" ELSE "exit",
              !.exc = ""]

mkdir(h, p) ==
    IF h.ctl # "ok" THEN h
    ELSE IF CanCreate(h.fs, p)
    THEN Did(h, Put(h.fs, p, DirNode), Ev("mkdir", p, NoPath, 0, 0, ""))
    ELSE Raise(h, "OSError")

\* os.chown and os.chmod
_set_file_perms(h, p, i) ==
    IF h.ctl # "ok" THEN h
    ELSE IF p \in DOMAIN h.fs
    THEN Did(h, h.fs, Ev("perms", p, NoPath, 0, ModeOf(i), ""))
    ELSE Raise(h, "OSError")

\* os.utime(..., follow_symlinks = False): the path must exist and the
\* inode's times must fit the platform's time type.
_set_file_timestamps(h, p, i) ==
    IF h.ctl # "ok" THEN h
    ELSE IF p \notin DOMAIN h.fs THEN Raise(h, "OSError")
    ELSE IF inodes[i].badtime THEN Raise(h, "OverflowError")
    ELSE Did(h, h.fs, Ev("utime", p, NoPath, 0, 0, ""))

\* open(path, 'wb') creates or truncates the file; write() takes bytes only.
\* (No image considered here writes to the name of a device node or FIFO.)
_write_reg_file(h, p, data, isBytes) ==
    IF h.ctl # "ok" THEN h
    ELSE IF ~(IsDir(h.fs, Parent(p)) /\ (p \notin DOMAIN h.fs \/ h.fs[p].kind = "file"))
    THEN Raise(h, "OSError")
    ELSE LET h1 == Did(h, Put(h.fs, p, Node("file", NoPath, 0)),
                       Ev("open", p, NoPath, 0, 0, ""))
         IN  IF ~isBytes THEN Raise(h1, "TypeError")
             ELSE Did(h1, Put(h1.fs, p, Node("file", NoPath, data)),
                      Ev("write", p, NoPath, data, 0, ""))

link(h, src, dst) ==
    IF h.ctl # "ok" THEN h
    ELSE IF src \in DOMAIN h.fs /\ h.fs[src].kind # "dir" /\ CanCreate(h.fs, dst)
    THEN Did(h, Put(h.fs, dst, h.fs[src]), Ev("link", dst, src, 0, 0, ""))
    ELSE Raise(h, "OSError")

symlink(h, target, p) ==
    IF h.ctl # "ok" THEN h
    ELSE IF CanCreate(h.fs, p)
    THEN Did(h, Put(h.fs, p, Node("lnk", target, 0)), Ev("symlink", p, target, 0, 0, ""))
    ELSE Raise(h, "OSError")

mknod(h, p, md, dev) ==
    IF h.ctl # "ok" THEN h
    ELSE IF CanCreate(h.fs, p)
    THEN Did(h, Put(h.fs, p, Node("dev", NoPath, dev)), Ev("mknod", p, NoPath, dev, md, ""))
    ELSE Raise(h, "OSError")

mkfifo(h, p, md) ==
    IF h.ctl # "ok" THEN h
    ELSE IF CanCreate(h.fs, p)
    THEN Did(h, Put(h.fs, p, Node("fifo", NoPath, 0)), Ev("mkfifo", p, NoPath, 0, md, ""))
    ELSE Raise(h, "OSError")

\* except Exception as e: error(extract_dents, 'Warn', msg)
Except(h, msg, n) == IF h.ctl = "exc" THEN error(h, "Warn", msg, n) ELSE h

(* ------------------------------------------------------------------ *)
(* extract_files and extract_dents                                     *)
(* ------------------------------------------------------------------ *)

H0 == [fs |-> fs, ev |-> log, ctl |-> "ok", exc |-> ""]

Top == stack[Len(stack)]

\* The loop on top of the stack has an entry left.
HasNext == pc = "run" /\ stack # <<>> /\ Top.idx <= Len(Top.dents)

CurDent == Top.dents[Top.idx]

\* The call extract_dents(...) of the loop fits the interpreter's stack.
CanCall == Len(stack) <= RecursionLimit

\* The loop moves on to the next sibling.
Advance(stk) == [stk EXCEPT ![Len(stk)].idx = @ + 1]

Frame(p, ds, i, mk) == [path |-> p, dents |-> ds, idx |-> 1, inum |-> i, mark |-> mk]

Visit(d, p) == [type |-> d.type, inum |-> d.inum, path |-> p, mark |-> Len(log)]

\* dent_path = os.path.realpath(os.path.join(path, dent_node.name))
DentPath == Realpath(fs, JoinPath(Top.path, CurDent.name))

\* inodes = {} ; walk.index(...)
StaleInodes == IF run = 1 THEN WalkIndex(image) ELSE inodes
FreshInodes == WalkIndex(image)

\* What follows a piece of extract_dents that ended in host state h: the
\* loops go on with stk, or the process exits inside error(), or an
\* exception reaches extract_files' handler, which reports it.
Continue(h, stk, ino, hs) ==
    LET hh == IF h.ctl = "exc" THEN error(h, "Error", h.exc, 0) ELSE h
    IN  /\ fs' = hh.fs
        /\ log' = hh.ev
        /\ inodes' = ino
        /\ hist' = hs
        /\ IF h.ctl = "ok"
           THEN /\ stack' = stk
                /\ pc' = "run"
                /\ outcome' = outcome
           ELSE /\ stack' = <<>>
                /\ pc' = "done"
                /\ outcome' = IF hh.ctl = "exit" THEN "exit" ELSE "failed"
        /\ UNCHANGED <<image, settings, run, log1, m>>

ExtractFilesStart ==
    /\ pc = "start"
    /\ LET ino == FreshInodes
       IN  IF Cardinality(DOMAIN ino) < 2
           THEN Continue(Raise(H0, "No inodes found"), <<>>, ino, hist)
           ELSE Continue(H0, <<Frame(OutPath, ino[1].dent, 1, 0)>>, ino, hist)

ExtractFilesEnd ==
    /\ pc = "run"
    /\ Len(stack) = 1
    /\ Top.idx > Len(Top.dents)
    /\ LET h == IF Len(image.bad_blocks) > 0
                THEN error(H0, "Warn", "bad blocks", 0)
                ELSE H0
       IN  /\ fs' = h.fs
           /\ log' = h.ev
           /\ stack' = <<>>
           /\ pc' = "done"
           /\ outcome' = IF h.ctl = "exit" THEN "exit" ELSE "completed"
           /\ UNCHANGED <<image, settings, inodes, run, log1, hist, m>>

\* The call does not fit the interpreter's stack: RecursionError is raised
\* at the call, outside every try block of extract_dents.
RecursionOverflow ==
    /\ HasNext
    /\ ~CanCall
    /\ Continue(Raise(H0, "RecursionError"), stack, inodes, hist)

Missing(d) == d.inum \notin DOMAIN inodes

ReportMissingMutant(h, d) == error(h, "Warn", "not found in inodes", 0)
ReportMissing(h, d) == error(h, "Error", "not found in inodes", d.inum)

DentMissing ==
    /\ HasNext /\ CanCall
    /\ Missing(CurDent)
    /\ Continue(ReportMissing(H0, CurDent), Advance(stack), inodes, hist)

DentUnsafe ==
    /\ HasNext /\ CanCall
    /\ ~Missing(CurDent)
    /\ ~is_safe_path(fs, Top.path, CurDent.name)
    /\ Continue(error(H0, "Warn", "Path traversal attempt", 0),
                Advance(stack), inodes, hist)

\* The entry passed both checks and is of type t.
Accepted(t) ==
    /\ HasNext /\ CanCall
    /\ ~Missing(CurDent)
    /\ is_safe_path(fs, Top.path, CurDent.name)
    /\ CurDent.type = t

\* The try block of the DIR branch.
MakeDir(h, p, i) ==
    IF Exists(h.fs, p) THEN h
    ELSE LET h1 == mkdir(h, p)
         IN  IF settings.perms THEN _set_file_perms(h1, p, i) ELSE h1

\* The directory's timestamps, set after its entries, outside the try block.
DirTimestampsCaught(h, p, i) == Except(_set_file_timestamps(h, p, i), "DIR Fail", 0)
DirTimestamps(h, p, i) == _set_file_timestamps(h, p, i)

DentDir ==
    /\ Accepted("DIR")
    /\ LET d == CurDent
           p == DentPath
           h1 == Except(MakeDir(H0, p, d.inum), "DIR Fail", 0)
           hs == Append(hist, Visit(d, p))
       IN  IF h1.ctl = "ok" /\ inodes[d.inum].dent # <<>>
           THEN Continue(h1,
                         Append(Advance(stack),
                                Frame(p, inodes[d.inum].dent, d.inum, Len(h1.ev))),
                         inodes, hs)
           ELSE Continue(DirTimestamps(h1, p, d.inum), Advance(stack), inodes, hs)

\* The loop over a directory's entries is over: back in the DIR branch.
DirReturn ==
    /\ pc = "run"
    /\ Len(stack) > 1
    /\ Top.idx > Len(Top.dents)
    /\ Continue(DirTimestamps(H0, Top.path, Top.inum),
                SubSeq(stack, 1, Len(stack) - 1), inodes, hist)

IsHardLinkedMutant(inode) == FALSE
IsHardLinked(inode) == inode.nlink > 1

HasHlink(inode) == inode.hlink # NoPath

\* The try block of the REG branch, on the inode map as it is after the
\* 'hlink' marker was set.
RegFile(h, p, i, first) ==
    LET h1 == IF IsHardLinked(inodes[i]) /\ ~first
              THEN link(h, inodes[i].hlink, p)
              ELSE _write_reg_file(h, p, process_reg_file(i), TRUE)
        h2 == _set_file_timestamps(h1, p, i)
    IN  IF settings.perms THEN _set_file_perms(h2, p, i) ELSE h2

DentReg ==
    /\ Accepted("REG")
    /\ LET d == CurDent
           p == DentPath
           first == ~HasHlink(inodes[d.inum])
           ino == IF IsHardLinked(inodes[d.inum]) /\ first
                  THEN [inodes EXCEPT ![d.inum].hlink = p]
                  ELSE inodes
       IN  Continue(Except(RegFile(H0, p, d.inum, first), "FILE Fail", 0),
                    Advance(stack), ino, Append(hist, Visit(d, p)))

\* The try block of the LNK branch.
SymLink(h, p, i) ==
    _set_file_timestamps(symlink(h, inodes[i].target, p), p, i)

DentLnk ==
    /\ Accepted("LNK")
    /\ Continue(Except(SymLink(H0, DentPath, CurDent.inum), "SYMLINK Fail", 0),
                Advance(stack), inodes, Append(hist, Visit(CurDent, DentPath)))

\* The try block of the BLK/CHR branch; struct.unpack('<II', data) needs
\* exactly two words.
DummyDevice(h, p, dev) == _write_reg_file(h, p, dev, FALSE)

Device(h, p, i) ==
    IF Len(inodes[i].words) # 2 THEN Raise(h, "struct.error")
    ELSE LET dev == inodes[i].words[1]
             h1 == IF ~settings.use_dummy_devices
                   THEN mknod(h, p, ModeOf(i), dev)
                   ELSE DummyDevice(h, p, dev)
         IN  IF settings.perms THEN _set_file_perms(h1, p, i) ELSE h1

DentDev ==
    /\ \/ Accepted("BLK")
       \/ Accepted("CHR")
    /\ Continue(Except(Device(H0, DentPath, CurDent.inum), "DEV Fail", 0),
                Advance(stack), inodes, Append(hist, Visit(CurDent, DentPath)))

\* The try block of the FIFO branch.
Fifo(h, p, i) ==
    LET h1 == mkfifo(h, p, ModeOf(i))
    IN  IF settings.perms THEN _set_file_perms(h1, p, i) ELSE h1

DentFifo ==
    /\ Accepted("FIFO")
    /\ Continue(Except(Fifo(H0, DentPath, CurDent.inum), "FIFO Fail", 0),
                Advance(stack), inodes, Append(hist, Visit(CurDent, DentPath)))

\* The try block of the SOCK branch; '' is a str.
Sock(h, p, i) ==
    IF settings.use_dummy_socket_file
    THEN LET h1 == _write_reg_file(h, p, 0, FALSE)
         IN  IF settings.perms THEN _set_file_perms(h1, p, i) ELSE h1
    ELSE h

DentSock ==
    /\ Accepted("SOCK")
    /\ Continue(Except(Sock(H0, DentPath, CurDent.inum), "SOCK Fail", 0),
                Advance(stack), inodes, Append(hist, Visit(CurDent, DentPath)))

\* The same image is decoded a second time, with the same options, into an
\* output directory put back into its first state.
DecodeAgain ==
    /\ pc = "done"
    /\ run = 1
    /\ run' = 2
    /\ log1' = log
    /\ log' = <<>>
    /\ hist' = <<>>
    /\ fs' = HostFs
    /\ pc' = "start"
    /\ outcome' = "running"
    /\ UNCHANGED <<image, settings, inodes, stack, m>>

MainIdle == [pc |-> "idle"]

\* An option that no entry of the image reads is left at its default.
Relevant(img, st) ==
    /\ st.use_dummy_devices =>
          HasEntry(img.root, IsDevEntry) \/ HasEntry(img.sub, IsDevEntry)
    /\ st.use_dummy_socket_file =>
          HasEntry(img.root, IsSockEntry) \/ HasEntry(img.sub, IsSockEntry)

Init ==
    /\ image \in Images
    /\ settings \in Settings
    /\ Relevant(image, settings)
    /\ fs = HostFs
    /\ inodes = << >>
    /\ stack = <<>>
    /\ pc = "start"
    /\ outcome = "running"
    /\ log = <<>>
    /\ run = 1
    /\ log1 = <<>>
    /\ hist = <<>>
    /\ m = MainIdle

Next ==
    \/ ExtractFilesStart
    \/ ExtractFilesEnd
    \/ RecursionOverflow
    \/ DentMissing
    \/ DentUnsafe
    \/ DentDir
    \/ DirReturn
    \/ DentReg
    \/ DentLnk
    \/ DentDev
    \/ DentFifo
    \/ DentSock
    \/ DecodeAgain

Spec == Init /\ [][Next]_vars

(* ------------------------------------------------------------------ *)
(* ubireader_list_files: main()                                        *)
(* ------------------------------------------------------------------ *)

\* An option that was not given on the command line (None).
NotGiven == 0 - 1

\* Python's truth of an optional integer: None and 0 are false.
Truthy(x) == x # NotGiven /\ x # 0

\* The command lines and image files considered: the offsets given with -s
\* and -g, the block size given, the -P and -C/-D options, the offsets of the
\* file at which a UBI or UBIFS magic number sits, the kind of the image and
\* the number of volumes of a UBI image.
MainInputs ==
    [ start_offset : {NotGiven} \cup 0..MaxOffset,
      guess_offset : {NotGiven} \cup 0..MaxOffset,
      block_size : {NotGiven, 1},
      listpath : BOOLEAN,
      copy : BOOLEAN,
      magics : SUBSET (0..MaxOffset),
      kind : {"UBI", "UBIFS"},
      volumes : 0..MaxVolumes ]

MainState(in) ==
    [ pc |-> "offsets", in |-> in, start |-> NotGiven, filetype |-> "",
      opened |-> FALSE, closed |-> FALSE, vol |-> 0, result |-> "running" ]

\* utils.guess_start_offset(path, from): the first offset at or after from
\* that holds a magic number; NotGiven when there is none.
guess_start_offset(in, from) ==
    LET found == { x \in in.magics : x >= from }
    IN  IF found = {} THEN NotGiven
        ELSE CHOOSE x \in found : \A y \in found : x <= y

\* utils.guess_filetype(path, start_offset): the magic number at the offset.
guess_filetype(in, start) == IF start \in in.magics THEN in.kind ELSE ""

\* The start offset main() works with.
StartOffset(in) ==
    IF Truthy(in.start_offset) THEN in.start_offset
    ELSE IF Truthy(in.guess_offset) THEN guess_start_offset(in, in.guess_offset)
    ELSE guess_start_offset(in, 0)

\* main() ends: by parser.error or a fatal report, or by an exception that
\* nothing in main() catches.
MainEnds(how) == m' = [m EXCEPT !.pc = "exit", !.result = how]

MainOffsets ==
    /\ m.pc = "offsets"
    /\ LET so == StartOffset(m.in)
       IN  IF so = NotGiven
           THEN MainEnds("fatal")
           ELSE m' = [m EXCEPT !.pc = "filetype", !.start = so]
    /\ UNCHANGED xvars

MainFiletype ==
    /\ m.pc = "filetype"
    /\ LET t == guess_filetype(m.in, m.start)
       IN  IF t = ""
           THEN MainEnds("usage")
           ELSE m' = [m EXCEPT !.pc = "blocksize", !.filetype = t]
    /\ UNCHANGED xvars

\* The block size is given, or guessed from the file, which may fail.
MainBlockSize ==
    /\ m.pc = "blocksize"
    /\ \E guessed \in BOOLEAN :
          IF Truthy(m.in.block_size) \/ guessed
          THEN m' = [m EXCEPT !.pc = "open"]
          ELSE MainEnds("usage")
    /\ UNCHANGED xvars

\* ufile_obj = ubi_file(...): the file is opened, unless that raises.
MainOpen ==
    /\ m.pc = "open"
    /\ \E ok \in BOOLEAN :
          IF ok
          THEN m' = [m EXCEPT !.opened = TRUE,
                              !.pc = IF m.filetype = "UBI" THEN "ubi" ELSE "ubifs"]
          ELSE MainEnds("raised")
    /\ UNCHANGED xvars

\* ubi_obj = ubi(ufile_obj)
MainUbi ==
    /\ m.pc = "ubi"
    /\ \E ok \in BOOLEAN :
          IF ok THEN m' = [m EXCEPT !.pc = "volumes", !.vol = 1]
          ELSE MainEnds("raised")
    /\ UNCHANGED xvars

\* What may raise while one UBIFS object is built and used.
Raisers(in) ==
    {"none", "ubifs"}
    \cup (IF in.listpath THEN {"list_files"} ELSE {})
    \cup (IF in.copy THEN {"copy_file"} ELSE {})

\* One pass of the loop over the volumes of the image.
MainVolume ==
    /\ m.pc = "volumes"
    /\ m.vol <= m.in.volumes
    /\ \E empty \in BOOLEAN, r \in Raisers(m.in) :
          IF empty \/ r = "none"
          THEN m' = [m EXCEPT !.vol = @ + 1]
          ELSE MainEnds("raised")
    /\ UNCHANGED xvars

MainVolumesDone ==
    /\ m.pc = "volumes"
    /\ m.vol > m.in.volumes
    /\ m' = [m EXCEPT !.pc = "close"]
    /\ UNCHANGED xvars

\* The branch for a bare UBIFS image.
MainUbifs ==
    /\ m.pc = "ubifs"
    /\ \E r \in Raisers(m.in) :
          IF r = "none" THEN m' = [m EXCEPT !.pc = "close"]
          ELSE MainEnds("raised")
    /\ UNCHANGED xvars

\* ufile_obj.close()
MainClose ==
    /\ m.pc = "close"
    /\ m' = [m EXCEPT !.closed = TRUE, !.pc = "exit", !.result = "ok"]
    /\ UNCHANGED xvars

InitMain ==
    /\ image = [keys |-> {1}, root |-> <<>>, sub |-> <<>>, nlink3 |-> 1,
                badtime2 |-> FALSE, bad_blocks |-> <<>>]
    /\ settings = [use_dummy_devices |-> FALSE, use_dummy_socket_file |-> FALSE,
                   perms |-> FALSE, tolerant |-> FALSE]
    /\ fs = HostFs
    /\ inodes = << >>
    /\ stack = <<>>
    /\ pc = "idle"
    /\ outcome = "running"
    /\ log = <<>>
    /\ run = 1
    /\ log1 = <<>>
    /\ hist = <<>>
    /\ \E in \in MainInputs : m = MainState(in)

NextMain ==
    \/ MainOffsets
    \/ MainFiletype
    \/ MainBlockSize
    \/ MainOpen
    \/ MainUbi
    \/ MainVolume
    \/ MainVolumesDone
    \/ MainUbifs
    \/ MainClose

SpecMain == InitMain /\ [][NextMain]_vars

(* ------------------------------------------------------------------ *)
(* Properties of extract_files                                         *)
(* ------------------------------------------------------------------ *)

Last(q) == q[Len(q)]

Writes3 == { k \in 1..Len(log) : LET e == log[k] IN e.op = "write" /\ e.n = process_reg_file(3) }

Links == { k \in 1..Len(log) : LET e == log[k] IN e.op = "link" }

FileFails == { k \in 1..Len(log) : LET e == log[k] IN e.op = "Warn" /\ e.msg = "FILE Fail" }

IsReg3(v) == v.type = "REG" /\ v.inum = 3

CountReg3(ds) == Cardinality({ k \in 1..Len(ds) : IsReg3(ds[k]) })

\* The REG entries for inode 3 among the entries reachable from inode 1.
ReachableReg3 ==
    CountReg3(image.root)
    + (IF HasEntry(image.root, IsDirEntry) THEN CountReg3(image.sub) ELSE 0)

\* The REG entries for inode 3 that reached the REG branch, in traversal order.
RegVisits3 == SelectSeq(hist, IsReg3)

\* C1 as stated: after extract_files, a regular-file inode with nlink > 1
\* that N reachable entries name has exactly one file written, at the first
\* entry's path, and exactly N-1 hard links, each from that path.
C1_Original ==
    (pc = "done" /\ 3 \in image.keys /\ image.nlink3 > 1 /\ ReachableReg3 >= 1) =>
        /\ Cardinality(Writes3) = 1
        /\ Cardinality(Links) = ReachableReg3 - 1
        /\ RegVisits3 # <<>>
        /\ \A k \in Writes3 : log[k].path = RegVisits3[1].path
        /\ \A k \in Links : log[k].src = RegVisits3[1].path

\* C1 as amended: of the REG entries for a regular-file inode with nlink > 1
\* that reach the REG branch, only the first leads to a file write (at most
\* one file per inode) and every later one to os.link from the first entry's
\* path; when none of these operations raises, exactly one file is written
\* and exactly one hard link is created per later entry.
C1_HardLinks ==
    (3 \in image.keys /\ image.nlink3 > 1) =>
        /\ \A k \in 1..Len(RegVisits3) :
              LET v == RegVisits3[k]
                  e == log[v.mark + 1]
              IN  /\ Len(log) > v.mark
                  /\ IF k = 1
                     THEN \/ e.op = "open" /\ e.path = v.path
                          \/ e.op = "Warn" /\ e.msg = "FILE Fail"
                     ELSE \/ e.op = "link" /\ e.path = v.path
                                           /\ e.src = RegVisits3[1].path
                          \/ e.op = "Warn" /\ e.msg = "FILE Fail"
        /\ Cardinality(Writes3) <= 1
        /\ (RegVisits3 # <<>> /\ FileFails = {}) =>
              /\ Cardinality(Writes3) = 1
              /\ \A k \in Writes3 : log[k].path = RegVisits3[1].path
              /\ Cardinality(Links) = Len(RegVisits3) - 1

\* A decode that wrote one file for inode 3 and linked a second name to it.
C1_Witness ==
    /\ pc = "done"
    /\ image.nlink3 > 1
    /\ Len(RegVisits3) = 2
    /\ FileFails = {}
    /\ Cardinality(Writes3) = 1
    /\ \E k \in Links : log[k].src = RegVisits3[1].path

\* C2 as stated: every path that extraction creates or writes on the host
\* lies inside the output root given to extract_files.
C2_PathSafety ==
    /\ \A p \in DOMAIN fs : p \in DOMAIN HostFs \/ Inside(OutPath, p)
    /\ \A k \in 1..Len(log) : log[k].path = NoPath \/ Inside(OutPath, log[k].path)

\* extract_dents is called for an entry whose inum is no key of the map.
VisitsMissing == HasNext /\ CanCall /\ CurDent.inum \notin DOMAIN inodes

ReportsMissing ==
    /\ fs' = fs
    /\ Len(log') = Len(log) + 1
    /\ SubSeq(log', 1, Len(log)) = log
    /\ Last(log').op = "Error"
    /\ Last(log').n = CurDent.inum

GoesOn == pc' = "run" /\ stack' = Advance(stack)

\* C3 as stated: an entry whose inum is missing from the inode map is
\* reported by an error naming the inum, nothing is created for it, and the
\* traversal continues with its remaining siblings.
C3_Original == [][VisitsMissing => (ReportsMissing /\ GoesOn)]_vars

\* C3 as amended: the entry is reported by an error naming the inum and
\* nothing is created for it; the traversal continues with the remaining
\* siblings when a tolerant mode is configured, and the decode ends there
\* when none is.
C3_Missing ==
    [][VisitsMissing =>
          /\ ReportsMissing
          /\ IF settings.tolerant THEN GoesOn ELSE pc' = "done" /\ outcome' = "exit"]_vars

\* The missing inum was reported and a sibling of the entry is next.
C3_Witness ==
    /\ HasNext
    /\ log # <<>>
    /\ Last(log).op = "Error"
    /\ Last(log).n = 5
    /\ Top.idx > 1
    /\ Top.dents[Top.idx - 1].inum = 5

Reports == { k \in 1..Len(log) : LET e == log[k] IN e.op \in {"Warn", "Error"} }

\* C4 as stated: with a tolerant mode configured an error raised while
\* extracting an entry becomes a warning and the remaining entries are
\* extracted; with none configured the first error ends the decode.
C4_Original ==
    /\ (settings.tolerant /\ pc = "done" /\ Cardinality(image.keys) >= 2) =>
          outcome = "completed"
    /\ (~settings.tolerant /\ Reports # {}) =>
          /\ pc = "done"
          /\ outcome = "exit"
          /\ Reports = {Len(log)}

IsDevVisit(v) == v.type \in {"BLK", "CHR"} /\ Len(inodes[v.inum].words) = 2

\* C7 as stated: with use_dummy_devices set, a BLK or CHR entry whose inode
\* exists gives a regular file at the entry's path holding the packed device
\* number, and mknod is never called; without it, mknod is called with the
\* inode's mode and device number and no regular file is written.
C7_Original ==
    \A j \in 1..Len(hist) :
        IsDevVisit(hist[j]) =>
            LET v == hist[j]
                dev == inodes[v.inum].words[1]
                e == log[v.mark + 1]
            IN  IF settings.use_dummy_devices
                THEN /\ v.path \in DOMAIN fs
                     /\ fs[v.path].kind = "file"
                     /\ fs[v.path].content = PackedDev(dev)
                     /\ \A k \in 1..Len(log) : log[k].op # "mknod"
                ELSE /\ \/ e.op = "mknod" /\ e.path = v.path /\ e.n = dev
                                          /\ e.mode = ModeOf(v.inum)
                        \/ e.op = "Warn" /\ e.msg = "DEV Fail"
                     /\ \A k \in 1..Len(log) : log[k].op \notin {"open", "write"}
                                               \/ log[k].path # v.path

\* C9 as stated: the traversal ends by itself: no directory inode is entered
\* while it is being traversed, so the depth of the descent is bounded by
\* the image and never by the interpreter's stack.
C9_Original ==
    /\ \A k \in 1..Len(log) : log[k].msg # "RecursionError"
    /\ \A j, k \in 2..Len(stack) : j # k => stack[j].inum # stack[k].inum

IsUtimeOf(p, e) == e.op = "utime" /\ e.path = p

\* The timestamps of a directory being traversed are not yet set.
TimestampsLast ==
    \A k \in 2..Len(stack) :
        \A j \in (stack[k].mark + 1)..Len(log) : ~IsUtimeOf(stack[k].path, log[j])

\* A directory entry whose inode's times do not fit and whose traversal is
\* over: the failure ended extract_files with an error, not a warning.
TimestampFailureEnds ==
    \A j \in 1..Len(hist) :
        LET v == hist[j]
        IN  ( /\ v.type = "DIR"
              /\ inodes[v.inum].badtime
              /\ \A k \in 2..Len(stack) : stack[k].path # v.path ) =>
                /\ pc = "done"
                /\ IF settings.tolerant
                   THEN outcome = "failed" /\ Last(log).op = "Error"
                   ELSE outcome = "exit"

C5_Original == (m.pc = "exit" /\ m.opened) => m.closed

\* C8 as stated: the start offset main() works with is the one given with
\* -s, whatever its value; only when none is given is it guessed, from the
\* offset given with -g or else from the start of the file.
C8_Original ==
    (m.pc = "filetype") =>
        IF m.in.start_offset # NotGiven
        THEN m.start = m.in.start_offset
        ELSE m.start = guess_start_offset(m.in,
                          IF m.in.guess_offset # NotGiven THEN m.in.guess_offset ELSE 0)

====
